---- MODULE Spec2Model ----
(***************************************************************************)
(* Model of fermipy/sourcefind.py: the peak detector find_peaks and the    *)
(* iterative source finder SourceFinder.find_sources / _iterate.           *)
(*                                                                         *)
(* Angles (min_separation, the pixel scale cdelt) are integers in one      *)
(* common angular unit, so that int(min_separation/cdelt) and the test     *)
(* distance*cdelt < min_separation are exact: the distance of a pixel      *)
(* offset is kept squared.                                                 *)
(***************************************************************************)
EXTENDS Integers, Sequences, FiniteSets

\* ------------------------------------------------------------------ bounds
NRows == 2
NCols == 3
MaxVal == 2
MaxSep == 3
MaxIter == 3
MaxPerIter == 2

Rows == 0 .. (NRows - 1)
Cols == 0 .. (NCols - 1)
\* a pixel is <<iy, ix>>, as in data[iy, ix]
Pix == Rows \X Cols
Values == 0 .. MaxVal
Grids == [Pix -> Values]
Thresholds == 0 .. (MaxVal + 1)
\* max(input_map.wcs.wcs.cdelt), in angular units
Cdelts == {1, 2}
Separations == 1 .. MaxSep

VARIABLES
    data,            \* input_map.counts
    cdelt,           \* max(input_map.wcs.wcs.cdelt)
    threshold,       \* find_peaks argument
    min_separation,  \* find_peaks argument
    peaks,           \* the list find_peaks returned
    fp_pc,           \* "input" before the call of find_peaks, "done" after
    max_iter,        \* find_sources: kwargs.get('max_iter', config)
    sources_per_iter, \* _iterate: kwargs.get('sources_per_iter', config)
    pc,              \* position of find_sources / _iterate
    iiter,           \* find_sources: the loop index i, iiter in _iterate
    names,           \* _iterate: names
    pos,             \* _iterate: position of the running for loop, from 1
    srcs,            \* _iterate: srcs
    o_sources,       \* find_sources: o['sources']
    roi,             \* gta.roi: the sources this run registered, name -> free
    fit_log,         \* the fits of the running round: <<name, status>>
    oplog,           \* every call made to gta, in order
    rounds,          \* what each finished call of _iterate returned
    error            \* the exception that left find_sources, "none" if none

pvars == <<data, cdelt, threshold, min_separation, peaks, fp_pc>>
fvars == <<max_iter, sources_per_iter, error, pc, iiter, names, pos, srcs, o_sources, roi,
           fit_log, oplog, rounds, error>>
vars == <<pvars, fvars>>

\* ------------------------------------------------------------ find_peaks
Abs(n) == IF n < 0 THEN -n ELSE n

\* Python's int(a/b) for b > 0: truncation towards zero
IntDiv(a, b) == IF a >= 0 THEN a \div b ELSE -((-a) \div b)

region_size_pix(ms, cd) == IntDiv(ms, cd)

\* utils.make_pixel_offset(npix): the distance of each cell of an npix x npix
\* array from the array's middle, here squared, indexed by the offset from
\* the middle (npix is odd in find_peaks, so the middle is a cell).
make_pixel_offset(npix) ==
    LET c == (npix - 1) \div 2
    IN  [o \in (-c .. c) \X (-c .. c) |-> o[1] * o[1] + o[2] * o[2]]

\* region with deltaxy multiplied by cdelt once too often
regionScaledTwice(ms, cd) ==
    LET deltaxy == make_pixel_offset(region_size_pix(ms, cd) * 2 + 3)
    IN  {o \in DOMAIN deltaxy : ms > 0 /\ deltaxy[o] * cd * cd * cd * cd < ms * ms}

\* deltaxy = make_pixel_offset(region_size_pix*2+3) * cdelt;
\* region = deltaxy < min_separation, as the set of offsets that are True
region(ms, cd) ==
    LET deltaxy == make_pixel_offset(region_size_pix(ms, cd) * 2 + 3)
    IN  {o \in DOMAIN deltaxy : ms > 0 /\ deltaxy[o] * cd * cd < ms * ms}

\* scipy.ndimage boundary mode 'reflect' (the default): d c b a | a b c d | d c b a
RECURSIVE Reflect(_, _)
Reflect(i, n) ==
    IF i < 0 THEN Reflect(-i - 1, n)
    ELSE IF i >= n THEN Reflect(2 * n - 1 - i, n)
    ELSE i

SetMax(S) == CHOOSE m \in S : \A v \in S : v <= m

\* scipy.ndimage.filters.maximum_filter(data, footprint=region)
maximum_filter(d, footprint) ==
    [p \in Pix |->
        SetMax({d[<<Reflect(p[1] + o[1], NRows), Reflect(p[2] + o[2], NCols)>>] :
                    o \in footprint})]

\* local_max with the square window of the call that is commented out,
\* maximum_filter(data, region_size), in place of the footprint
local_maxSquareWindow(d, T, ms, cd) ==
    LET size == IF region_size_pix(ms, cd) < 1 THEN 1 ELSE region_size_pix(ms, cd)
        lo == -(size \div 2)
        window == (lo .. (lo + size - 1)) \X (lo .. (lo + size - 1))
        filtered == maximum_filter(d, window)
    IN  {p \in Pix : filtered[p] = d[p] /\ ~(d[p] < T)}

\* local_max = maximum_filter(...) == data; local_max[data < threshold] = False
local_max(d, T, ms, cd) ==
    LET filtered == maximum_filter(d, region(ms, cd))
    IN  {p \in Pix : filtered[p] = d[p] /\ ~(d[p] < T)}

\* a structuring element of full connectivity: the 8 neighbours
Structure8(p) ==
    {q \in Pix : q # p /\ Abs(q[1] - p[1]) <= 1 /\ Abs(q[2] - p[2]) <= 1}

\* scipy.ndimage.label's default structuring element: the 4 face neighbours
Structure(p) == {q \in Pix : Abs(q[1] - p[1]) + Abs(q[2] - p[2]) = 1}

RECURSIVE Flood(_, _)
Flood(mask, comp) ==
    LET nxt == comp \cup {q \in mask : \E p \in comp : q \in Structure(p)}
    IN  IF nxt = comp THEN comp ELSE Flood(mask, nxt)

RasterIdx(p) == p[1] * NCols + p[2]
RasterFirst(S) == CHOOSE p \in S : \A q \in S : RasterIdx(p) <= RasterIdx(q)

\* scipy.ndimage.label(local_max): the components, numbered in raster order
RECURSIVE label(_)
label(mask) ==
    IF mask = {} THEN <<>>
    ELSE LET c == Flood(mask, {RasterFirst(mask)})
         IN  <<c>> \o label(mask \ c)

SetMin(S) == CHOOSE m \in S : \A v \in S : m <= v

\* scipy.ndimage.find_objects(labeled): per label the bounding box; only the
\* two slice starts are used
find_objects(labeled) ==
    [k \in 1 .. Len(labeled) |->
        [ystart |-> SetMin({p[1] : p \in labeled[k]}),
         xstart |-> SetMin({p[2] : p \in labeled[k]})]]

\* SkyCoord.from_pixel(ix, iy, wcs) for an affine mapping of scale cdelt
from_pixel(ix, iy, cd) == <<ix * cd, iy * cd>>

\* the loop over slices with the two slice starts taken for each other
PeakListSwapped(d, slices, cd) ==
    [k \in 1 .. Len(slices) |->
        [ix |-> slices[k].ystart,
         iy |-> slices[k].xstart,
         skydir |-> from_pixel(slices[k].ystart, slices[k].xstart, cd),
         amp |-> d[<<slices[k].ystart, slices[k].xstart>>]]]

\* the loop over slices building the list of peak dictionaries
PeakList(d, slices, cd) ==
    [k \in 1 .. Len(slices) |->
        [ix |-> slices[k].xstart,
         iy |-> slices[k].ystart,
         skydir |-> from_pixel(slices[k].xstart, slices[k].ystart, cd),
         amp |-> d[<<slices[k].ystart, slices[k].xstart>>]]]

\* sorted(peaks, key=amp, reverse=True): stable, descending
RECURSIVE InsertDesc(_, _)
InsertDesc(s, e) ==
    IF s = <<>> THEN <<e>>
    ELSE IF Head(s).amp >= e.amp THEN <<Head(s)>> \o InsertDesc(Tail(s), e)
    ELSE <<e>> \o s

RECURSIVE SortFrom(_, _)
SortFrom(acc, s) ==
    IF s = <<>> THEN acc ELSE SortFrom(InsertDesc(acc, Head(s)), Tail(s))

\* sorted left out: the peaks in label order
sortedUnsorted(s) == s

\* sorted(peaks, key=lambda t: t['amp'], reverse=True)
sorted(s) == SortFrom(<<>>, s)

find_peaks(d, T, ms, cd) ==
    sorted(PeakList(d, find_objects(label(local_max(d, T, ms, cd))), cd))

\* ------------------------------------------------- specification: find_peaks
InitPeaks ==
    /\ data \in Grids
    /\ cdelt \in Cdelts
    /\ threshold \in Thresholds
    /\ min_separation \in Separations
    /\ peaks = <<>>
    /\ fp_pc = "input"
    /\ max_iter = 0
    /\ sources_per_iter = 0
    /\ pc = "idle"
    /\ iiter = 0
    /\ names = <<>>
    /\ pos = 1
    /\ srcs = <<>>
    /\ o_sources = <<>>
    /\ roi = <<>>
    /\ fit_log = <<>>
    /\ oplog = <<>>
    /\ rounds = <<>>
    /\ error = "none"

CallFindPeaks ==
    /\ fp_pc = "input"
    /\ peaks' = find_peaks(data, threshold, min_separation, cdelt)
    /\ fp_pc' = "done"
    /\ UNCHANGED <<data, cdelt, threshold, min_separation, fvars>>

NextPeaks == CallFindPeaks

SpecPeaks == InitPeaks /\ [][NextPeaks]_vars

\* ------------------------------------------------------------ SourceFinder
\* the grids gta.tsmap returns as m['sqrt_ts']: any values on the pixels of
\* even iy + ix, zero on the others
EvenPix == {p \in Pix : (p[1] + p[2]) % 2 = 0}
EngineGrids ==
    {[p \in Pix |-> IF p \in EvenPix THEN e[p] ELSE 0] : e \in [EvenPix -> Values]}

FitStatus == {"success", "failure"}

\* utils.create_source_name(skydir): a name fixed by the sky coordinate
create_source_name(skydir) == <<"PS", skydir[1], skydir[2]>>

\* a slice that takes the whole list
SliceTakeAll(s, n) == s

\* Python's s[:n]
Slice(s, n) ==
    LET m == IF n >= 0 THEN (IF n < Len(s) THEN n ELSE Len(s))
             ELSE (IF Len(s) + n > 0 THEN Len(s) + n ELSE 0)
    IN  SubSeq(s, 1, m)

\* peaks[:sources_per_iter], the peaks the first loop of _iterate walks
Promoted == Slice(peaks, sources_per_iter)

\* gta.add_source(name, src_dict, free=True) / gta.free_source(name, free):
\* the catalog entry of name is set; an entry of that name is overwritten
SetFree(catalog, name, free) ==
    [n \in DOMAIN catalog \cup {name} |-> IF n = name THEN free ELSE catalog[n]]

\* a loop that does not stop at max_iter
InRangeAlways(n, m) == n >= 0

\* i in range(max_iter)
InRange(n, m) == n >= 0 /\ n < m

\* a loop without the break
BreakLoopNever(s) == FALSE

\* if len(srcs) == 0: break
BreakLoop(s) == Len(s) = 0

\* a refit loop that is left when a fit fails
AfterFitAbortOnFailure(status) == IF status = "failure" THEN "collect" ELSE "refreeze"

\* the statement after gta.fit() in the refit loop, whatever fit returned
AfterFit(status) == "refreeze"

Op(op, arg) == [op |-> op, arg |-> arg]

\* a freeze pass that leaves the sources free
FreezePassFreeKept == TRUE

\* the second argument of gta.free_source(name, False) in the freeze pass
FreezePassFree == FALSE

\* a refit loop that does not freeze the source again
RefreezeFreeKept == TRUE

\* the second argument of gta.free_source(name, False) after gta.fit()
RefreezeFree == FALSE

\* o['sources'] = srcs
AccumulateReplace(o, s) == s

\* o['sources'] += srcs
Accumulate(o, s) == o \o s

\* an exception of gta.tsmap caught in find_sources, which then returns o
OnEngineFatalSwallowed == "returned"

\* neither _iterate nor find_sources has a handler: an exception of gta.tsmap
\* leaves both
OnEngineFatal == "raised"

\* find_sources is entered; the engine's maps have the pixel scale 1
InitFinder ==
    /\ data = [p \in Pix |-> 0]
    /\ cdelt = 1
    /\ threshold \in 1 .. MaxVal
    /\ min_separation \in 0 .. MaxSep
    /\ peaks = <<>>
    /\ fp_pc = "idle"
    /\ max_iter \in -1 .. MaxIter
    /\ sources_per_iter \in -1 .. MaxPerIter
    /\ pc = "loop"
    /\ iiter = 0
    /\ names = <<>>
    /\ pos = 1
    /\ srcs = <<>>
    /\ o_sources = <<>>
    /\ roi = <<>>
    /\ fit_log = <<>>
    /\ oplog = <<>>
    /\ rounds = <<>>
    /\ error = "none"

\* find_sources: the loop has a next index i; _iterate asks gta.tsmap for the
\* grid, which fails
TsMapFatal ==
    /\ pc = "loop"
    /\ InRange(iiter, max_iter)
    /\ oplog' = Append(oplog, Op("tsmap", iiter))
    /\ error' = "engine_fatal"
    /\ pc' = OnEngineFatal
    /\ UNCHANGED <<pvars, max_iter, sources_per_iter, iiter, names, pos, srcs,
                   o_sources, roi, fit_log, rounds>>

\* ... the grid is returned, but the footprint find_peaks builds has no True
\* cell (min_separation <= 0): maximum_filter raises ValueError
TsMapBadFootprint ==
    /\ pc = "loop"
    /\ InRange(iiter, max_iter)
    /\ region(min_separation, cdelt) = {}
    /\ oplog' = Append(oplog, Op("tsmap", iiter))
    /\ error' = "ValueError"
    /\ pc' = "raised"
    /\ UNCHANGED <<pvars, max_iter, sources_per_iter, iiter, names, pos, srcs,
                   o_sources, roi, fit_log, rounds>>

\* ... the grid is returned and find_peaks finds its peaks
TsMap ==
    /\ pc = "loop"
    /\ InRange(iiter, max_iter)
    /\ region(min_separation, cdelt) # {}
    /\ \E g \in EngineGrids :
          peaks' = find_peaks(g, threshold, min_separation, cdelt)
    /\ oplog' = Append(oplog, Op("tsmap", iiter))
    /\ names' = <<>>
    /\ srcs' = <<>>
    /\ fit_log' = <<>>
    /\ pos' = 1
    /\ pc' = "add"
    /\ UNCHANGED <<data, cdelt, threshold, min_separation, fp_pc, max_iter,
                   sources_per_iter, error, iiter, o_sources, roi, rounds>>

\* find_sources: range(max_iter) is exhausted; return o
Return ==
    /\ pc = "loop"
    /\ ~InRange(iiter, max_iter)
    /\ pc' = "returned"
    /\ UNCHANGED <<pvars, max_iter, sources_per_iter, error, iiter, names, pos, srcs,
                   o_sources, roi, fit_log, oplog, rounds>>

\* for p in peaks[:sources_per_iter]: names += [name]; gta.add_source(...)
AddSource ==
    /\ pc = "add"
    /\ pos <= Len(Promoted)
    /\ LET name == create_source_name(Promoted[pos].skydir)
       IN  /\ names' = Append(names, name)
           /\ roi' = SetFree(roi, name, TRUE)
           /\ oplog' = Append(oplog, Op("add_source", name))
    /\ pos' = pos + 1
    /\ UNCHANGED <<pvars, max_iter, sources_per_iter, error, pc, iiter, srcs, o_sources,
                   fit_log, rounds>>

AddDone ==
    /\ pc = "add"
    /\ pos > Len(Promoted)
    /\ pc' = "freeze"
    /\ pos' = 1
    /\ UNCHANGED <<pvars, max_iter, sources_per_iter, error, iiter, names, srcs,
                   o_sources, roi, fit_log, oplog, rounds>>

\* for name in names: gta.free_source(name, False)
Freeze ==
    /\ pc = "freeze"
    /\ pos <= Len(names)
    /\ roi' = SetFree(roi, names[pos], FreezePassFree)
    /\ oplog' = Append(oplog, Op("freeze", names[pos]))
    /\ pos' = pos + 1
    /\ UNCHANGED <<pvars, max_iter, sources_per_iter, error, pc, iiter, names, srcs,
                   o_sources, fit_log, rounds>>

FreezeDone ==
    /\ pc = "freeze"
    /\ pos > Len(names)
    /\ pc' = "unfreeze"
    /\ pos' = 1
    /\ UNCHANGED <<pvars, max_iter, sources_per_iter, error, iiter, names, srcs,
                   o_sources, roi, fit_log, oplog, rounds>>

\* for name in names: gta.free_source(name, True)
Unfreeze ==
    /\ pc = "unfreeze"
    /\ pos <= Len(names)
    /\ roi' = SetFree(roi, names[pos], TRUE)
    /\ oplog' = Append(oplog, Op("unfreeze", names[pos]))
    /\ pc' = "fit"
    /\ UNCHANGED <<pvars, max_iter, sources_per_iter, error, iiter, names, pos, srcs,
                   o_sources, fit_log, rounds>>

\* gta.fit(): succeeds or fails; the value it returns is not looked at
Fit ==
    /\ pc = "fit"
    /\ \E status \in FitStatus :
          /\ fit_log' = Append(fit_log, <<names[pos], status>>)
          /\ pc' = AfterFit(status)
    /\ oplog' = Append(oplog, Op("fit", names[pos]))
    /\ UNCHANGED <<pvars, max_iter, sources_per_iter, error, iiter, names, pos, srcs,
                   o_sources, roi, rounds>>

\* gta.free_source(name, False), the end of one pass of the refit loop
Refreeze ==
    /\ pc = "refreeze"
    /\ roi' = SetFree(roi, names[pos], RefreezeFree)
    /\ oplog' = Append(oplog, Op("freeze", names[pos]))
    /\ pos' = pos + 1
    /\ pc' = "unfreeze"
    /\ UNCHANGED <<pvars, max_iter, sources_per_iter, error, iiter, names, srcs,
                   o_sources, fit_log, rounds>>

RefitDone ==
    /\ pc = "unfreeze"
    /\ pos > Len(names)
    /\ pc' = "collect"
    /\ pos' = 1
    /\ UNCHANGED <<pvars, max_iter, sources_per_iter, error, iiter, names, srcs,
                   o_sources, roi, fit_log, oplog, rounds>>

\* for name in names: srcs.append(gta.roi[name])
Collect ==
    /\ pc = "collect"
    /\ pos <= Len(names)
    /\ srcs' = Append(srcs, names[pos])
    /\ oplog' = Append(oplog, Op("roi", names[pos]))
    /\ pos' = pos + 1
    /\ UNCHANGED <<pvars, max_iter, sources_per_iter, error, pc, iiter, names, o_sources,
                   roi, fit_log, rounds>>

\* return srcs; find_sources: o['sources'] += srcs; break if srcs is empty
RoundEnd ==
    /\ pc = "collect"
    /\ pos > Len(names)
    /\ o_sources' = Accumulate(o_sources, srcs)
    /\ rounds' = Append(rounds, srcs)
    /\ IF BreakLoop(srcs)
       THEN pc' = "returned" /\ iiter' = iiter
       ELSE pc' = "loop" /\ iiter' = iiter + 1
    /\ UNCHANGED <<pvars, max_iter, sources_per_iter, error, names, pos, srcs, roi,
                   fit_log, oplog>>

Next ==
    \/ TsMapFatal
    \/ TsMapBadFootprint
    \/ TsMap
    \/ Return
    \/ AddSource
    \/ AddDone
    \/ Freeze
    \/ FreezeDone
    \/ Unfreeze
    \/ Fit
    \/ Refreeze
    \/ RefitDone
    \/ Collect
    \/ RoundEnd

Spec == InitFinder /\ [][Next]_vars

\* The runs of find_sources at the highest threshold: a value below the
\* threshold is one more way for a pixel not to be a peak.
InitFair == InitFinder /\ threshold = MaxVal

\* find_sources runs in one thread and every call it makes returns or raises:
\* a step that can be taken is taken
FairSpec == InitFair /\ [][Next]_vars /\ WF_vars(Next)

\* ------------------------------------------------------- claims: find_peaks
Returned == fp_pc = "done"

\* squared pixel offset between two peaks; the distance of the claims is its
\* root times cdelt
OffsetSq(a, b) == (a.ix - b.ix) * (a.ix - b.ix) + (a.iy - b.iy) * (a.iy - b.iy)
AtLeastMinSeparation(a, b) ==
    OffsetSq(a, b) * cdelt * cdelt >= min_separation * min_separation

Components == label(local_max(data, threshold, min_separation, cdelt))
ComponentsAt(pk) ==
    {k \in DOMAIN Components :
        /\ find_objects(Components)[k].ystart = pk.iy
        /\ find_objects(Components)[k].xstart = pk.ix}
\* the peak is the peak of a single-pixel component
SinglePixel(pk) == \E k \in ComponentsAt(pk) : Cardinality(Components[k]) = 1
\* no multi-pixel component is reported at the peak's pixel
OnlySinglePixel(pk) ==
    /\ ComponentsAt(pk) # {}
    /\ \A k \in ComponentsAt(pk) : Cardinality(Components[k]) = 1

\* C1: every peak find_peaks returns has an amplitude >= threshold.
C1_AmpAtLeastThreshold ==
    Returned => \A k \in DOMAIN peaks : peaks[k].amp >= threshold

C3_SeparatedFromLargerPeaks ==
    Returned =>
        \A i, j \in DOMAIN peaks :
            peaks[j].amp > peaks[i].amp => AtLeastMinSeparation(peaks[i], peaks[j])

\* C4: the returned sequence is sorted by amplitude, largest first.
C4_SortedDescending ==
    Returned =>
        \A i, j \in DOMAIN peaks : i < j => peaks[i].amp >= peaks[j].amp

\* three peaks are returned, not all of one amplitude
C4_Witness ==
    /\ Returned
    /\ Len(peaks) >= 3
    /\ peaks[1].amp > peaks[Len(peaks)].amp

\* C5 (as claimed): a threshold T2 >= threshold never gives more peaks.
C5_MonotoneInThreshold ==
    Returned =>
        \A T2 \in Thresholds :
            T2 >= threshold =>
                Len(find_peaks(data, T2, min_separation, cdelt)) <= Len(peaks)

\* C5 (amended): when min_separation is larger than the pixel scale, a
\* threshold T2 >= threshold never gives more peaks.
C5_MonotoneWhenFootprintHasNeighbours ==
    (Returned /\ min_separation > cdelt) =>
        \A T2 \in Thresholds :
            T2 >= threshold =>
                Len(find_peaks(data, T2, min_separation, cdelt)) <= Len(peaks)

\* a larger threshold drops some but not all of the peaks
C5_Witness ==
    /\ Returned
    /\ min_separation > cdelt
    /\ \E T2 \in Thresholds :
          /\ T2 > threshold
          /\ Len(find_peaks(data, T2, min_separation, cdelt)) < Len(peaks)
          /\ Len(find_peaks(data, T2, min_separation, cdelt)) > 0

\* ------------------------------------------------------ claims: SourceFinder
RECURSIVE Flatten(_)
Flatten(ss) == IF ss = <<>> THEN <<>> ELSE Head(ss) \o Flatten(Tail(ss))

TsMapCalls == {n \in DOMAIN oplog : oplog[n].op = "tsmap"}
AddCalls == {n \in DOMAIN oplog : oplog[n].op = "add_source"}

\* the first loop of _iterate is over: the round's sources are registered
Registered == pc \in {"freeze", "unfreeze", "fit", "refreeze", "collect"}
\* _iterate is about to return
RoundDone == pc = "collect" /\ pos > Len(names)

\* C6: once a round has promoted no source, find_sources has returned: that
\* round's grid request is the last call made to the engine, it was the last
\* round, and the result holds the sources of the rounds before it.
C6_StopsAtFirstEmptyRound ==
    \A r \in DOMAIN rounds :
        rounds[r] = <<>> =>
            /\ r = Len(rounds)
            /\ pc = "returned"
            /\ oplog[Len(oplog)] = Op("tsmap", r - 1)
            /\ Cardinality(TsMapCalls) = r
            /\ o_sources = Flatten(SubSeq(rounds, 1, r - 1))

\* the second of three allowed rounds promoted nothing and the call returned
\* the first round's sources
C6_Witness ==
    /\ pc = "returned"
    /\ max_iter = 3
    /\ Len(rounds) = 2
    /\ rounds[1] # <<>>
    /\ rounds[2] = <<>>
    /\ o_sources = rounds[1]

PromotedArePrefix ==
    /\ Len(names) <= Len(peaks)
    /\ \A j \in DOMAIN names : names[j] = create_source_name(peaks[j].skydir)
    /\ \A j \in DOMAIN names : \A m \in DOMAIN peaks :
          m > Len(names) => peaks[j].amp >= peaks[m].amp

\* C7 (as claimed): for any integer sources_per_iter a round promotes at most
\* sources_per_iter peaks, the first ones of the amplitude-sorted list.
C7_AtMostPerIterPromoted ==
    Registered => (Len(names) <= sources_per_iter /\ PromotedArePrefix)

\* C7 (amended): for any sources_per_iter >= 0 a round promotes at most
\* sources_per_iter peaks, the first ones of the amplitude-sorted list.
C7_AtMostPerIterPromotedNonNegative ==
    (Registered /\ sources_per_iter >= 0) =>
        (Len(names) <= sources_per_iter /\ PromotedArePrefix)

\* sources_per_iter = 1 and three peaks: the one of largest amplitude is promoted
C7_Witness ==
    /\ Registered
    /\ sources_per_iter = 1
    /\ Len(peaks) = 3
    /\ peaks[1].amp > peaks[2].amp
    /\ names = <<create_source_name(peaks[1].skydir)>>

\* C8: with max_iter <= 0 or min_separation <= 0 the call ends in an error
\* before any call to the engine.
C8_BadConfigRejectedBeforeLoop ==
    (max_iter <= 0 \/ min_separation <= 0) =>
        (oplog = <<>> /\ pc \in {"loop", "raised"})

\* C9: add_source is never called with a name that is already registered,
\* and no name is twice in the result.
C9_NoNameRegisteredTwice ==
    /\ \A a, b \in AddCalls : a # b => oplog[a].arg # oplog[b].arg
    /\ \A a, b \in DOMAIN o_sources : a # b => o_sources[a] # o_sources[b]

\* C10: a round in which a fit failed still fits every source of the round
\* once, in order, leaves every one of them frozen and collects them all.
C10_FitFailureDoesNotAbortRound ==
    (RoundDone /\ \E j \in DOMAIN fit_log : fit_log[j][2] = "failure") =>
        /\ Len(fit_log) = Len(names)
        /\ \A j \in DOMAIN names : fit_log[j][1] = names[j]
        /\ \A j \in DOMAIN names : roi[names[j]] = FALSE
        /\ srcs = names

\* the fit of the first of two sources failed and the round went on
C10_Witness ==
    /\ RoundDone
    /\ Len(names) = 2
    /\ names[1] # names[2]
    /\ fit_log[1] = <<names[1], "failure">>
    /\ fit_log[2] = <<names[2], "success">>
    /\ srcs = names

\* C11: once gta.tsmap has failed fatally, find_sources has raised: it did
\* not return, the failed grid request is the last call made to the engine,
\* and no round was started after it.
C11_EngineFatalAborts ==
    error = "engine_fatal" =>
        /\ pc = "raised"
        /\ oplog[Len(oplog)] = Op("tsmap", iiter)
        /\ Cardinality(TsMapCalls) = iiter + 1
        /\ Len(rounds) = iiter

\* the grid request of the second round failed, after the first round had
\* registered a source
C11_Witness ==
    /\ error = "engine_fatal"
    /\ pc = "raised"
    /\ iiter = 1
    /\ Len(rounds[1]) >= 1

\* ---------------------------------------------- more claims: find_peaks
AtOrAboveThreshold == {p \in Pix : data[p] >= threshold}

\* C12: when exactly one pixel is >= threshold, find_peaks returns exactly
\* one peak, at that pixel and with that pixel's value.
C12_SinglePixelAboveThreshold ==
    (Returned /\ Cardinality(AtOrAboveThreshold) = 1) =>
        \A p \in AtOrAboveThreshold :
            /\ Len(peaks) = 1
            /\ peaks[1].iy = p[1]
            /\ peaks[1].ix = p[2]
            /\ peaks[1].amp = data[p]

\* one pixel off the diagonal is >= threshold and the footprint covers more
\* than the centre pixel
C12_Witness ==
    /\ Returned
    /\ min_separation > cdelt
    /\ AtOrAboveThreshold = {<<0, 2>>}
    /\ Len(peaks) = 1

\* the components of a set of pixels under a neighbour relation, as the
\* non-empty subsets that are connected and closed under the relation
Adjacent4(p, q) == Abs(p[1] - q[1]) + Abs(p[2] - q[2]) = 1
Adjacent8(p, q) == p # q /\ Abs(p[1] - q[1]) <= 1 /\ Abs(p[2] - q[2]) <= 1

RECURSIVE Reach(_, _, _)
Reach(Adj(_, _), S, from) ==
    LET nxt == from \cup {q \in S : \E p \in from : Adj(p, q)}
    IN  IF nxt = from THEN from ELSE Reach(Adj, S, nxt)

ComponentsUnder(Adj(_, _), mask) == {Reach(Adj, mask, {p}) : p \in mask}

Candidates == local_max(data, threshold, min_separation, cdelt)

\* the peak the claim expects of a component: its bounding-box origin and the
\* grid value there
OriginPeak(c) ==
    LET y0 == SetMin({p[1] : p \in c})
        x0 == SetMin({p[2] : p \in c})
    IN  [ix |-> x0, iy |-> y0, skydir |-> from_pixel(x0, y0, cdelt),
         amp |-> data[<<y0, x0>>]]

\* one returned peak per component, each the OriginPeak of its component
OnePeakPerComponent(comps) ==
    /\ Len(peaks) = Cardinality(comps)
    /\ \A c \in comps :
          Cardinality({n \in DOMAIN peaks : peaks[n] = OriginPeak(c)})
              = Cardinality({c2 \in comps : OriginPeak(c2) = OriginPeak(c)})

\* C14 (as claimed): the candidates are grouped into 8-connected components
\* and one peak is returned per component, at its bounding-box origin.
C14_OnePeakPer8Component ==
    Returned => OnePeakPerComponent(ComponentsUnder(Adjacent8, Candidates))

\* C14 (amended): the candidates are grouped into 4-connected components
\* (pixels touching only diagonally are in different components) and one
\* peak is returned per component, at its bounding-box origin.
C14_OnePeakPer4Component ==
    Returned => OnePeakPerComponent(ComponentsUnder(Adjacent4, Candidates))

\* two candidates touch only diagonally and two peaks are returned, and some
\* component has more than one pixel
C14_Witness ==
    /\ Returned
    /\ Len(peaks) = 2
    /\ \E p, q \in Candidates :
          /\ Adjacent8(p, q)
          /\ ~Adjacent4(p, q)
          /\ Reach(Adjacent4, Candidates, {p}) # Reach(Adjacent4, Candidates, {q})
    /\ \E c \in ComponentsUnder(Adjacent4, Candidates) : Cardinality(c) >= 2

\* ------------------------------------------ more claims: SourceFinder
Fittable == {n \in DOMAIN roi : roi[n]}

\* C15: at every call of gta.fit() exactly one source registered by this run
\* is fittable, the one being refit; every other one is frozen.
C15_OnlyRefitSourceIsFree ==
    pc = "fit" => Fittable = {names[pos]}

\* the second source of the second round is fit while three sources are
\* registered
C15_Witness ==
    /\ pc = "fit"
    /\ iiter = 1
    /\ pos = 2
    /\ Cardinality(DOMAIN roi) >= 3
    /\ Fittable = {names[2]}

Adds(ns) == [j \in DOMAIN ns |-> Op("add_source", ns[j])]
Freezes(ns) == [j \in DOMAIN ns |-> Op("freeze", ns[j])]
Refits(ns) ==
    Flatten([j \in DOMAIN ns |->
                <<Op("unfreeze", ns[j]), Op("fit", ns[j]), Op("freeze", ns[j])>>])
Reads(ns) == [j \in DOMAIN ns |-> Op("roi", ns[j])]
\* the engine calls of a whole round, in the order of the claim
RoundOps(r, ns) ==
    <<Op("tsmap", r)>> \o Adds(ns) \o Freezes(ns) \o Refits(ns) \o Reads(ns)
FinishedRoundsOps ==
    Flatten([r \in DOMAIN rounds |-> RoundOps(r - 1, rounds[r])])
FirstOf(ns, n) == SubSeq(ns, 1, n)
\* the engine calls the running round has made on reaching its position
RunningRoundOps ==
    LET head == <<Op("tsmap", iiter)>> \o Adds(names)
    IN  CASE pc = "add" -> head
          [] pc = "freeze" -> head \o Freezes(FirstOf(names, pos - 1))
          [] pc = "unfreeze" ->
                head \o Freezes(names) \o Refits(FirstOf(names, pos - 1))
          [] pc = "fit" ->
                head \o Freezes(names) \o Refits(FirstOf(names, pos - 1))
                     \o <<Op("unfreeze", names[pos])>>
          [] pc = "refreeze" ->
                head \o Freezes(names) \o Refits(FirstOf(names, pos - 1))
                     \o <<Op("unfreeze", names[pos]), Op("fit", names[pos])>>
          [] pc = "collect" ->
                head \o Freezes(names) \o Refits(names)
                     \o Reads(FirstOf(names, pos - 1))
          [] pc = "raised" -> <<Op("tsmap", iiter)>>
          [] OTHER -> <<>>

\* C16: the engine calls of every round are, in this order: one grid
\* request; the registration of every source of the round, as fittable; the
\* freeze of every one; per source, in registration order, unfreeze, fit,
\* freeze; and the read-back of every source after the last refit.
C16_RoundOperationOrder ==
    /\ oplog = FinishedRoundsOps \o RunningRoundOps
    /\ pc = "add" => \A j \in DOMAIN names : roi[names[j]] = TRUE

\* a round with two sources has made all its calls
C16_Witness ==
    /\ RoundDone
    /\ Len(names) = 2
    /\ names[1] # names[2]
    /\ iiter = 1
    /\ Len(oplog) > 13

AddCallsOf(log) == {n \in DOMAIN log : log[n].op = "add_source"}

\* C17: o['sources'] changes only at the end of a round, by that round's
\* sources, in registration order, being put after what it held; on return
\* its length is the number of add_source calls of the run.
C17_ResultSetOnlyGrows ==
    [][/\ (o_sources' # o_sources \/ rounds' # rounds) =>
              (/\ pc = "collect"
               /\ o_sources' = o_sources \o names
               /\ rounds' = Append(rounds, names))
       /\ pc' = "returned" => Len(o_sources') = Cardinality(AddCallsOf(oplog'))]_vars

\* two rounds with sources have been put into the result, which was returned
C17_Witness ==
    /\ pc = "returned"
    /\ Len(rounds) >= 2
    /\ Len(rounds[1]) = 2
    /\ Len(rounds[2]) >= 1
    /\ o_sources = Flatten(rounds)
    /\ Len(o_sources) = Cardinality(AddCalls)

InRound == pc \in {"add", "freeze", "unfreeze", "fit", "refreeze", "collect"}
Ended == pc \in {"returned", "raised"}

C18_RoundsBounded ==
    /\ Cardinality(TsMapCalls) <= (IF max_iter > 0 THEN max_iter ELSE 0)
    /\ Len(rounds) <= Cardinality(TsMapCalls)
    /\ Cardinality(TsMapCalls) =
          Len(rounds) + (IF InRound \/ pc = "raised" THEN 1 ELSE 0)
    /\ \A n \in TsMapCalls :
          oplog[n].arg = Cardinality({m \in TsMapCalls : m < n})

\* C18: find_sources ends, after at most max_iter rounds; the grid is
\* requested once per round, at most max_iter times in all, and the request
\* of round i carries the index i, from 0.
C18_TerminatesWithinMaxIter == []C18_RoundsBounded /\ <>Ended

\* max_iter rounds ran, each with sources, and the call returned
C18_Witness ==
    /\ pc = "returned"
    /\ max_iter = 3
    /\ Len(rounds) = 3
    /\ rounds[3] # <<>>
    /\ Cardinality(TsMapCalls) = 3
    /\ Len(oplog) > 3 + Len(o_sources)

\* C19: when find_sources has returned, and whenever a round is over, every
\* source this run registered is frozen.
C19_AllFrozenBetweenRounds ==
    (pc \in {"loop", "returned"} \/ RoundDone) =>
        \A n \in DOMAIN roi : roi[n] = FALSE

\* the call returned after two rounds that registered three sources
C19_Witness ==
    /\ pc = "returned"
    /\ Len(rounds) >= 2
    /\ Cardinality(DOMAIN roi) >= 3
    /\ Fittable = {}

====
